---- MODULE Spec2Model ----
(***************************************************************************)
(* Model of the Prefect tasks of land_pipeline that talk to Airtable and   *)
(* to Make.com webhooks:                                                   *)
(*   src/airtable_utils.py          get_airtable_records,                  *)
(*                                  create_airtable_record,                *)
(*                                  update_airtable_record, log_automation *)
(*   src/nightly_backup.py          trigger_make_backup                    *)
(*   src/flows/pandadoc_triggers.py call_pandadoc_webhook                  *)
(*                                                                         *)
(* One caller invokes one task at a time (the tasks are synchronous).  A   *)
(* task invocation is run by the task engine: the decorated function is    *)
(* executed, and when it raises it is executed again from its first line   *)
(* until retries are used up.  The HTTP transport and the remote server    *)
(* are the environment: a request either fails in the transport or is      *)
(* answered with a status and a body.                                      *)
(*                                                                         *)
(* A task called from inside another task (log_automation calls            *)
(* create_airtable_record) runs as a task of its own, with its own         *)
(* retries, as the current task engine does.                               *)
(***************************************************************************)
EXTENDS Integers, Sequences, FiniteSets, TLC

\* Bounds of the model: the longest page sequence a server serves and the
\* most records on one page.
MaxPages == 3
MaxPageRecords == 2

VARIABLES
    op,                 \* the task the caller invoked ("none" before any call)
    args,               \* its arguments
    server,             \* the pages the Airtable server holds for the query
    pc,                 \* "idle", "send", "wait", "recv", "failed", "done"
    attempts,           \* attempts of the task doing the HTTP call, this one included
    outerAttempts,      \* attempts of log_automation (0 for the other tasks)
    params,             \* get_airtable_records: the params dict
    all_records,        \* get_airtable_records: the accumulator
    offset,             \* get_airtable_records: the cursor variable
    sent,               \* the requests issued by the running attempt, in order
    response,           \* the response being handled
    raised,             \* the exception that ended the running attempt
    httpCalls,          \* HTTP requests issued since the caller's call
    transportFailures,  \* attempts of the running task ended by the transport
    outcome,            \* "none", "success", "error": what the caller got
    result              \* the value returned to the caller

vars == <<op, args, server, pc, attempts, outerAttempts, params, all_records,
          offset, sent, response, raised, httpCalls, transportFailures,
          outcome, result>>

----------------------------------------------------------------------------
(* Python and JSON values.  None, strings and numbers carry their type so   *)
(* that values of different types can be compared; a dict is a function     *)
(* whose domain is the set of its keys, a list is a sequence.               *)

None == [type |-> "None"]
Str(s) == [type |-> "str", s |-> s]
Num(n) == [type |-> "int", n |-> n]
EmptyDict == <<>>

\* An opaque, non-empty cursor string: the one the server hands out with page k.
Token(k) == [type |-> "str", s |-> "itr", n |-> k]

\* Record j of page k.
Rec(k, j) == [id |-> <<"rec", k, j>>]

\* Python truthiness of a value (`if view:`, `if offset:`, `if not offset:`).
Truthy_TreatsEmptyAsCursor(v) == v /= None /\ v /= Num(0)
Truthy(v) == v /= None /\ v /= Str("") /\ v /= Num(0)

\* dict.get(key, default)
DictGet(d, key, default) == IF key \in DOMAIN d THEN d[key] ELSE default

\* d[key] = value
DictSet(d, key, value) == (key :> value) @@ d

----------------------------------------------------------------------------
(* The HTTP layer.                                                          *)

NoResponse == [status |-> 0, body |-> [kind |-> "none", value |-> None]]
NoError == [kind |-> "none", status |-> 0]

TransportError == [kind |-> "TransportError", status |-> 0]
HTTPStatusError(status) == [kind |-> "HTTPStatusError", status |-> status]
JSONDecodeError == [kind |-> "JSONDecodeError", status |-> 0]

JsonBody(v) == [kind |-> "json", value |-> v]
EmptyBody == [kind |-> "empty", value |-> None]       \* ""
BlankBody == [kind |-> "blank", value |-> None]       \* whitespace only
TextBody == [kind |-> "text", value |-> None]         \* text that is not JSON

\* response.raise_for_status() raises unless the status is 2xx.
Is2xx(status) == status >= 200 /\ status < 300

\* response.json() raises unless the body is JSON.
IsJson(body) == body.kind = "json"

\* bool(response.text)
HasText(body) == body.kind /= "empty"

\* bool(response.text.strip())
HasStrippedText(body) == body.kind \in {"json", "text"}

----------------------------------------------------------------------------
(* The task engine: @task(retries=..., retry_delay_seconds=...).            *)

retries_OneFewer(task) == 1
retries(task) ==
    CASE task = "get_airtable_records" -> 2
      [] task = "create_airtable_record" -> 2
      [] task = "update_airtable_record" -> 2
      [] task = "log_automation" -> 2
      [] task = "call_pandadoc_webhook" -> 2
      [] task = "trigger_make_backup" -> 2

\* The task whose function issues the HTTP request of operation o.
HttpTask(o) == IF o = "log_automation" THEN "create_airtable_record" ELSE o

----------------------------------------------------------------------------
(* The environment: the Airtable server's pages and the callers' inputs.    *)

\* The page the server emits k-th: its records and, when it has one, its
\* "offset".  The cursor "absent" stands for a body with no "offset" key.
Page(k, size, cursor) ==
    LET recs == [j \in 1..size |-> Rec(k, j)]
    IN IF cursor = [type |-> "absent"] THEN ("records" :> recs)
       ELSE ("records" :> recs) @@ ("offset" :> cursor)

\* What the last page carries in place of a cursor: no "offset" key, a
\* null one or an empty one.
LastCursors == { [type |-> "absent"], None, Str("") }

\* A server serves a finite sequence of pages; every page but the last
\* carries a cursor.  The pages' sizes run through 0..MaxPageRecords, from a
\* different size for each server, so that empty, short and full pages meet
\* in every order.
ServersOf(n) ==
    { [k \in 1..n |-> Page(k, (k + sl[1]) % (MaxPageRecords + 1),
                           IF k < n THEN Token(k) ELSE sl[2])] :
        sl \in (0..MaxPageRecords) \X LastCursors }

Servers == UNION { ServersOf(n) : n \in 1..MaxPages }

\* The page a GET with params p is answered with: page one without an
\* offset, the page after page k for the cursor of page k, 0 for a cursor
\* the server never handed out.
PageIndex(srv, p) ==
    IF "offset" \notin DOMAIN p THEN 1
    ELSE IF \E k \in 1..(Len(srv) - 1) : p["offset"] = Token(k)
         THEN 1 + CHOOSE k \in 1..(Len(srv) - 1) : p["offset"] = Token(k)
         ELSE 0

\* All the records of the server's pages, in the order the server emits them.
RECURSIVE Concatenation(_, _)
Concatenation(srv, n) ==
    IF n = 0 THEN <<>> ELSE Concatenation(srv, n - 1) \o srv[n]["records"]

Queries ==
    { [table_name |-> "Lead Intake", view |-> None, filter_formula |-> None, max_records |-> None],
      [table_name |-> "Lead Intake", view |-> Str("New Today"), filter_formula |-> None, max_records |-> None],
      [table_name |-> "Lead Intake", view |-> Str(""), filter_formula |-> Str(""), max_records |-> Num(0)],
      [table_name |-> "Lead Intake", view |-> Str("New Today"), filter_formula |-> Str("{Status}='New'"), max_records |-> Num(5)] }

FieldMaps == { EmptyDict, ("Name" :> Str("Test")) }

NoServer == <<>>
NoArgs == <<>>

----------------------------------------------------------------------------
(* get_airtable_records                                                     *)

\* Lines 40-47: the params dict of an attempt.
BuildParams(a) ==
    LET p1 == IF Truthy(a.view) THEN DictSet(EmptyDict, "view", a.view) ELSE EmptyDict
        p2 == IF Truthy(a.filter_formula) THEN DictSet(p1, "filterByFormula", a.filter_formula) ELSE p1
    IN IF Truthy(a.max_records) THEN DictSet(p2, "maxRecords", a.max_records) ELSE p2

\* Lines 59-60: the params of the next request.
NextParams_NoOffset(p, off) == p
NextParams(p, off) == IF Truthy(off) THEN DictSet(p, "offset", off) ELSE p

\* Line 66: all_records.extend(data.get("records", []))
Extend_Overwrite(acc, data) == DictGet(data, "records", <<>>)
Extend(acc, data) == acc \o DictGet(data, "records", <<>>)

\* Lines 68-70: the loop goes on while the response carries a cursor.
LoopContinues(off) == Truthy(off)

\* Line 55: the accumulator an attempt starts with.
FreshAccumulator_Keeps(acc) == acc
FreshAccumulator(acc) == <<>>

\* Lines 58-62: a GET with the params of the loop's current turn.
GetRequest(a, p) == [method |-> "GET", url |-> <<a.table_name>>, params |-> p]

----------------------------------------------------------------------------
(* create_airtable_record, update_airtable_record, log_automation           *)

\* Lines 106 and 147: payload = {"fields": fields}
FieldsPayload_Bare(fields) == fields
FieldsPayload(fields) == DictSet(EmptyDict, "fields", fields)

\* Lines 111 and 152: return response.json()
JsonReturn_FieldsOnly(body) == DictGet(body.value, "fields", None)
JsonReturn(body) == body.value

\* Lines 176-186: the field map of a log record.
LogFields(a) ==
    LET f0 == DictSet(DictSet(EmptyDict, "Action", Str(a.action)), "Status", Str(a.status))
        f1 == IF Truthy(a.record_url) THEN DictSet(f0, "Record URL", a.record_url) ELSE f0
        f2 == IF Truthy(a.payload) THEN DictSet(f1, "Payload", a.payload) ELSE f1
    IN IF Truthy(a.error_message) THEN DictSet(f2, "Error Message", a.error_message) ELSE f2

\* The statuses the docstring of log_automation documents.
LogStatuses == {"Success", "Error", "Warning"}

\* Line 188: log_automation calls create_airtable_record("Automations Log", fields).
CreateArgs(o, a) ==
    IF o = "log_automation"
    THEN [table_name |-> "Automations Log", fields |-> LogFields(a)]
    ELSE a

\* Line 108: the POST of create_airtable_record.
PostRequest(a) ==
    [method |-> "POST", url |-> <<a.table_name>>, json |-> FieldsPayload(a.fields)]

\* Line 149: the PATCH of update_airtable_record.
PatchRequest(a) ==
    [method |-> "PATCH", url |-> <<a.table_name, a.record_id>>,
     json |-> FieldsPayload(a.fields)]

----------------------------------------------------------------------------
(* call_pandadoc_webhook, trigger_make_backup                               *)

\* pandadoc_triggers.py lines 25-29: the POST of the caller's payload.
WebhookRequest(a) == [method |-> "POST", url |-> <<a.webhook_url>>, json |-> a.payload]

\* pandadoc_triggers.py lines 34-40: the value returned for a 2xx response.
Accepted(status) ==
    DictSet(DictSet(EmptyDict, "status", Str("accepted")), "status_code", Num(status))

PandadocReturn(resp) ==
    IF HasText(resp.body) /\ HasStrippedText(resp.body)
    THEN IF IsJson(resp.body) THEN resp.body.value ELSE Accepted(resp.status)
    ELSE Accepted(resp.status)

\* nightly_backup.py lines 24-33: the POST of tables and subfolder.
BackupRequest(a) ==
    [method |-> "POST", url |-> <<a.webhook_url>>,
     json |-> DictSet(DictSet(EmptyDict, "tables", a.tables), "subfolder", Str(a.subfolder))]

\* nightly_backup.py line 36: response.json() if response.text else {...};
\* whether the expression raises, and its value when it does not.
BackupParses(body) == ~HasText(body) \/ IsJson(body)
BackupReturn(body) ==
    IF HasText(body) THEN body.value ELSE DictSet(EmptyDict, "status", Str("triggered"))

----------------------------------------------------------------------------
(* What the server may answer.                                              *)

WebhookOps == {"call_pandadoc_webhook", "trigger_make_backup"}

SuccessStatuses(o) == IF o \in WebhookOps THEN {200, 202} ELSE {200}
ErrorStatuses == {404, 500}

\* The well-formed body of a 2xx answer to request req.
GoodBodies(o, srv, req) ==
    CASE o = "get_airtable_records" ->
            IF PageIndex(srv, req.params) = 0 THEN {}
            ELSE { JsonBody(srv[PageIndex(srv, req.params)]) }
      [] o \in {"create_airtable_record", "log_automation"} ->
            { JsonBody(DictSet(DictSet(DictSet(EmptyDict, "id", Str("rec123")),
                                       "createdTime", Str("2024-01-01T00:00:00.000Z")),
                               "fields", DictGet(req.json, "fields", EmptyDict))) }
      [] o = "update_airtable_record" ->
            { JsonBody(DictSet(DictSet(EmptyDict, "id", Str(req.url[2])),
                               "fields", DictGet(req.json, "fields", EmptyDict))) }
      [] o \in WebhookOps ->
            { JsonBody(DictSet(EmptyDict, "accepted", Str("true"))) }

\* Bodies of a 2xx answer that are not JSON.
OddBodies(o) == IF o \in WebhookOps THEN {EmptyBody, BlankBody, TextBody}
                ELSE {EmptyBody, TextBody}

Replies(o, srv, req) ==
    { [status |-> s, body |-> TextBody] : s \in ErrorStatuses }
    \cup (IF GoodBodies(o, srv, req) = {} THEN {}
          ELSE { [status |-> s, body |-> b] :
                   s \in SuccessStatuses(o), b \in GoodBodies(o, srv, req) \cup OddBodies(o) })

----------------------------------------------------------------------------
(* The state machine.                                                       *)

Init ==
    /\ op = "none" /\ args = NoArgs /\ server = NoServer
    /\ pc = "idle"
    /\ attempts = 0 /\ outerAttempts = 0
    /\ params = EmptyDict /\ all_records = <<>> /\ offset = None
    /\ sent = <<>> /\ response = NoResponse /\ raised = NoError
    /\ httpCalls = 0 /\ transportFailures = 0
    /\ outcome = "none" /\ result = None

\* The caller invokes task o with arguments a: the engine starts the first
\* attempt, which runs the function down to its HTTP request.
Call(o, a, srv) ==
    /\ pc = "idle"
    /\ op' = o /\ args' = a /\ server' = srv
    /\ attempts' = 1
    /\ outerAttempts' = IF o = "log_automation" THEN 1 ELSE 0
    /\ params' = IF o = "get_airtable_records" THEN BuildParams(a) ELSE EmptyDict
    /\ all_records' = <<>> /\ offset' = None
    /\ sent' = <<>> /\ response' = NoResponse /\ raised' = NoError
    /\ httpCalls' = 0 /\ transportFailures' = 0
    /\ outcome' = "none" /\ result' = None
    /\ pc' = "send"

get_airtable_records ==
    \E q \in Queries, srv \in Servers : Call("get_airtable_records", q, srv)

create_airtable_record ==
    \E f \in FieldMaps :
        Call("create_airtable_record", [table_name |-> "Lead Intake", fields |-> f], NoServer)

update_airtable_record ==
    \E f \in FieldMaps :
        Call("update_airtable_record",
             [table_name |-> "Lead Intake", record_id |-> "rec123", fields |-> f], NoServer)

log_automation ==
    \E st \in LogStatuses \cup {"Bogus"}, url \in {None, Str("https://airtable.com/rec123")},
       err \in {None, Str("boom")} :
        Call("log_automation",
             [action |-> "Backup", status |-> st, record_url |-> url,
              payload |-> None, error_message |-> err], NoServer)

call_pandadoc_webhook ==
    Call("call_pandadoc_webhook",
         [webhook_url |-> "https://hook.make.com/offer",
          payload |-> DictSet(EmptyDict, "Seller", Str("Test Seller"))], NoServer)

trigger_make_backup ==
    \E t \in {<<>>, <<"Lead Intake">>}, sub \in {"", "manual"} :
        Call("trigger_make_backup",
             [webhook_url |-> "https://hook.make.com/backup", tables |-> t, subfolder |-> sub],
             NoServer)

\* The request the function of operation o issues next.
RequestOf(o, a, p) ==
    CASE o = "get_airtable_records" -> GetRequest(a, p)
      [] o \in {"create_airtable_record", "log_automation"} -> PostRequest(CreateArgs(o, a))
      [] o = "update_airtable_record" -> PatchRequest(a)
      [] o = "call_pandadoc_webhook" -> WebhookRequest(a)
      [] o = "trigger_make_backup" -> BackupRequest(a)

\* httpx.get / httpx.post / httpx.patch is called.  In get_airtable_records
\* the params dict is first given the cursor (lines 59-60).  The guard on the
\* number of requests keeps a loop that never ends finite; a server of at
\* most MaxPages pages never reaches it.
Send ==
    /\ pc = "send"
    /\ Len(sent) <= MaxPages
    /\ params' = IF op = "get_airtable_records" THEN NextParams(params, offset) ELSE params
    /\ sent' = Append(sent, RequestOf(op, args, params'))
    /\ httpCalls' = httpCalls + 1
    /\ response' = NoResponse
    /\ pc' = "wait"
    /\ UNCHANGED <<op, args, server, attempts, outerAttempts, all_records, offset,
                   raised, transportFailures, outcome, result>>

\* The transport raises (connection error, timeout): the attempt ends.
TransportFails ==
    /\ pc = "wait"
    /\ raised' = TransportError
    /\ transportFailures' = transportFailures + 1
    /\ pc' = "failed"
    /\ UNCHANGED <<op, args, server, attempts, outerAttempts, params, all_records,
                   offset, sent, response, httpCalls, outcome, result>>

\* The server answers the request.
ServerResponds ==
    /\ pc = "wait"
    /\ \E r \in Replies(op, server, sent[Len(sent)]) : response' = r
    /\ pc' = "recv"
    /\ UNCHANGED <<op, args, server, attempts, outerAttempts, params, all_records,
                   offset, sent, raised, httpCalls, transportFailures, outcome, result>>

\* The function raises e: the attempt ends.
Raise(e) ==
    /\ raised' = e
    /\ pc' = "failed"
    /\ UNCHANGED <<outcome, result>>

\* The function returns v, and with it the task; log_automation returns what
\* create_airtable_record returned (line 188).
Return(v) ==
    /\ pc' = "done"
    /\ outcome' = "success"
    /\ result' = v
    /\ UNCHANGED raised

\* get_airtable_records lines 63-72.
HandleGet ==
    /\ pc = "recv" /\ op = "get_airtable_records"
    /\ IF ~Is2xx(response.status)
       THEN Raise(HTTPStatusError(response.status)) /\ UNCHANGED <<all_records, offset>>
       ELSE IF ~IsJson(response.body)
       THEN Raise(JSONDecodeError) /\ UNCHANGED <<all_records, offset>>
       ELSE /\ all_records' = Extend(all_records, response.body.value)
            /\ offset' = DictGet(response.body.value, "offset", None)
            /\ IF LoopContinues(offset')
               THEN pc' = "send" /\ UNCHANGED <<raised, outcome, result>>
               ELSE Return(all_records')
    /\ UNCHANGED <<op, args, server, attempts, outerAttempts, params, sent, response,
                   httpCalls, transportFailures>>

\* create_airtable_record lines 109-111 and update_airtable_record lines
\* 150-152; log_automation line 188 passes the value on.
HandleJson ==
    /\ pc = "recv"
    /\ op \in {"create_airtable_record", "update_airtable_record", "log_automation"}
    /\ IF ~Is2xx(response.status) THEN Raise(HTTPStatusError(response.status))
       ELSE IF ~IsJson(response.body) THEN Raise(JSONDecodeError)
       ELSE Return(JsonReturn(response.body))
    /\ UNCHANGED <<op, args, server, attempts, outerAttempts, params, all_records,
                   offset, sent, response, httpCalls, transportFailures>>

\* call_pandadoc_webhook lines 30-40.
HandlePandadoc ==
    /\ pc = "recv" /\ op = "call_pandadoc_webhook"
    /\ IF ~Is2xx(response.status) THEN Raise(HTTPStatusError(response.status))
       ELSE Return(PandadocReturn(response))
    /\ UNCHANGED <<op, args, server, attempts, outerAttempts, params, all_records,
                   offset, sent, response, httpCalls, transportFailures>>

\* trigger_make_backup lines 34-36.
HandleBackup ==
    /\ pc = "recv" /\ op = "trigger_make_backup"
    /\ IF ~Is2xx(response.status) THEN Raise(HTTPStatusError(response.status))
       ELSE IF ~BackupParses(response.body) THEN Raise(JSONDecodeError)
       ELSE Return(BackupReturn(response.body))
    /\ UNCHANGED <<op, args, server, attempts, outerAttempts, params, all_records,
                   offset, sent, response, httpCalls, transportFailures>>

\* The engine runs the function again after a failed attempt, from its first
\* line: the locals are new.
TaskRetry ==
    /\ pc = "failed"
    /\ attempts <= retries(HttpTask(op))
    /\ attempts' = attempts + 1
    /\ params' = IF op = "get_airtable_records" THEN BuildParams(args) ELSE EmptyDict
    /\ all_records' = FreshAccumulator(all_records)
    /\ offset' = None
    /\ sent' = <<>> /\ response' = NoResponse /\ raised' = NoError
    /\ pc' = "send"
    /\ UNCHANGED <<op, args, server, outerAttempts, httpCalls, transportFailures,
                   outcome, result>>

\* The retries of create_airtable_record are used up inside log_automation:
\* its exception ends the attempt of log_automation, which the engine runs
\* again, and with it a new invocation of create_airtable_record.
LogRetry ==
    /\ pc = "failed" /\ op = "log_automation"
    /\ attempts > retries("create_airtable_record")
    /\ outerAttempts <= retries("log_automation")
    /\ outerAttempts' = outerAttempts + 1
    /\ attempts' = 1
    /\ transportFailures' = 0
    /\ sent' = <<>> /\ response' = NoResponse /\ raised' = NoError
    /\ pc' = "send"
    /\ UNCHANGED <<op, args, server, params, all_records, offset, httpCalls,
                   outcome, result>>

\* The retries are used up: the caller gets the exception of the last attempt.
TaskGiveUp ==
    /\ pc = "failed"
    /\ attempts > retries(HttpTask(op))
    /\ op = "log_automation" => outerAttempts > retries("log_automation")
    /\ pc' = "done"
    /\ outcome' = "error"
    /\ UNCHANGED <<op, args, server, attempts, outerAttempts, params, all_records,
                   offset, sent, response, raised, httpCalls, transportFailures, result>>

\* The caller has its value or its exception; nothing of the invocation is
\* kept (no state is shared between invocations).
CallerContinues ==
    /\ pc = "done"
    /\ op' = "none" /\ args' = NoArgs /\ server' = NoServer
    /\ pc' = "idle"
    /\ attempts' = 0 /\ outerAttempts' = 0
    /\ params' = EmptyDict /\ all_records' = <<>> /\ offset' = None
    /\ sent' = <<>> /\ response' = NoResponse /\ raised' = NoError
    /\ httpCalls' = 0 /\ transportFailures' = 0
    /\ outcome' = "none" /\ result' = None

Next ==
    \/ CallerContinues
    \/ get_airtable_records
    \/ create_airtable_record
    \/ update_airtable_record
    \/ log_automation
    \/ call_pandadoc_webhook
    \/ trigger_make_backup
    \/ Send
    \/ TransportFails
    \/ ServerResponds
    \/ HandleGet
    \/ HandleJson
    \/ HandlePandadoc
    \/ HandleBackup
    \/ TaskRetry
    \/ LogRetry
    \/ TaskGiveUp

Spec == Init /\ [][Next]_vars

\* The single-threaded caller goes on, the transport answers or times out
\* (timeout=30.0, timeout=60.0) and the engine runs what it has to run: a
\* step that can be taken is taken.
LiveSpec == Spec /\ WF_vars(Next)

----------------------------------------------------------------------------
(* Properties.                                                              *)

Get == op = "get_airtable_records"
Succeeded == pc = "done" /\ outcome = "success"

\* A response that is a success on the wire: a 2xx status and a JSON body.
GoodResponse == Is2xx(response.status) /\ response.body.kind = "json"

\* A page body carries a cursor when its "offset" is there, not null and
\* not empty.
CarriesCursor(data) ==
    "offset" \in DOMAIN data /\ data["offset"] \notin {None, Str("")}

\* The records of the pages that answered the requests of the running attempt.
RECURSIVE Answered(_)
Answered(n) ==
    IF n = 0 THEN <<>>
    ELSE Answered(n - 1) \o server[PageIndex(server, sent[n].params)]["records"]

\* C1: with max_records unset, a get_airtable_records attempt in which no
\* request fails returns the concatenation of the server's pages, in the
\* order the server emits them: no page dropped, duplicated or reordered.
C1_ListReturnsConcatenation ==
    (Get /\ Succeeded /\ args.max_records = None)
        => result = Concatenation(server, Len(server))

C1_Witness ==
    /\ Get /\ Succeeded /\ args.max_records = None
    /\ Len(server) = MaxPages
    /\ Len(result) >= 2

\* The operations of C2, and what C2 asks of one step.
C2Ops == {"get_airtable_records", "create_airtable_record", "update_airtable_record",
          "call_pandadoc_webhook", "trigger_make_backup"}

C2_Step ==
    /\ (op \in C2Ops /\ pc = "failed" /\ raised = TransportError /\ attempts \in {1, 2})
         => (pc' = "send" /\ attempts' = attempts + 1 /\ outcome' = "none")
    /\ (op \in C2Ops /\ pc = "recv" /\ attempts = 3 /\ transportFailures = 2 /\ GoodResponse)
         => /\ attempts' = 3 /\ raised' = NoError
            /\ IF Get /\ CarriesCursor(response.body.value)
               THEN pc' = "send"
               ELSE /\ pc' = "done" /\ outcome' = "success"
                    /\ result' = IF Get THEN Concatenation(server, Len(server))
                                 ELSE response.body.value
                    /\ ~Get => httpCalls' = 3

\* C2: when the transport fails the first two attempts of an operation and
\* the third is answered well, the engine retries after each failure without
\* surfacing it, and the third attempt returns the successful result to the
\* caller: 3 attempts, and for the one-request operations 3 requests.
C2_RetryIsTransparent == [][C2_Step]_vars

C2_Witness ==
    /\ op \in C2Ops /\ Succeeded
    /\ attempts = 3 /\ transportFailures = 2

\* C3: one invocation of a network-facing operation makes at most 3
\* attempts, and one invocation of create, update or log issues at most 3
\* HTTP requests.
C3_AtMostThreeRequests ==
    /\ attempts <= 3 /\ outerAttempts <= 3
    /\ op \in {"create_airtable_record", "update_airtable_record", "log_automation"}
         => httpCalls <= 3

\* C4: a 404 answer to the PATCH of update_airtable_record ends the
\* operation in a NotFoundError, an outcome no other status produces, and
\* is not retried: exactly one PATCH is issued.
C4_NotFoundIsNotRetried ==
    (op = "update_airtable_record" /\ pc = "done" /\ outcome = "error"
        /\ response.status = 404)
        => (raised.kind = "NotFoundError" /\ httpCalls = 1)

\* C5: log_automation called with a status outside {Success, Error,
\* Warning} ends in InvalidArgument and issues no HTTP request.
C5_BogusStatusIsRejected ==
    (op = "log_automation" /\ args.status \notin LogStatuses)
        => /\ httpCalls = 0
           /\ pc = "done" => (outcome = "error" /\ raised.kind = "InvalidArgument")

\* What C6 asks of a state and of a step of get_airtable_records.
C6_State ==
    Get =>
        /\ pc = "failed" => (outcome = "none" /\ result = None)
        /\ (pc = "done" /\ outcome = "error") => result = None
        /\ (pc = "wait" /\ Len(sent) = 1)
             => ("offset" \notin DOMAIN sent[1].params /\ all_records = <<>>)
        /\ Succeeded => result = Answered(Len(sent))

C6_Step ==
    (Get /\ pc = "failed")
        => \/ pc' = "done" /\ outcome' = "error" /\ result' = None
           \/ /\ pc' = "send" /\ attempts' = attempts + 1
              /\ sent' = <<>> /\ all_records' = <<>> /\ ~Truthy(offset')
              /\ "offset" \notin DOMAIN params'

\* C6: a failed page request aborts the attempt of get_airtable_records
\* with nothing returned; the page is not requested again inside the loop;
\* a retry starts from page one, with no cursor and an empty accumulator.
\* What a successful invocation returns is the records of the pages of one
\* attempt, and a failed one returns nothing.
C6_FailureAbortsAndRestarts == []C6_State /\ [][C6_Step]_vars

C6_Witness ==
    /\ Get /\ pc = "failed" /\ attempts >= 2
    /\ Len(sent) >= 2 /\ all_records /= <<>>

\* What C7 asks of the step that follows a failed attempt.
C7_Step ==
    (pc = "failed" /\ Is2xx(response.status))
        => (attempts' = attempts /\ outerAttempts' = outerAttempts)

\* C7: an attempt the server answered with a 2xx status is never followed by
\* a further attempt, whatever the body.
C7_NoRetryAfter2xx == [][C7_Step]_vars

\* C8: a failure-free attempt of get_airtable_records makes as many requests
\* as the server has pages (two for a server of two pages); the first
\* carries no offset, and request k+1 carries the cursor of response k, with
\* the view, filter and maxRecords parameters of the first request.
C8_RequestsFollowCursors ==
    Get =>
        /\ sent /= <<>> => "offset" \notin DOMAIN sent[1].params
        /\ \A k \in 2..Len(sent) :
             /\ k - 1 <= Len(server) /\ CarriesCursor(server[k - 1])
             /\ sent[k].params = DictSet(sent[1].params, "offset", server[k - 1]["offset"])
        /\ Succeeded => Len(sent) = Len(server)

C8_Witness ==
    /\ Get /\ Succeeded
    /\ Len(server) = 2 /\ Len(sent) = 2
    /\ DOMAIN sent[1].params = {"view", "filterByFormula", "maxRecords"}

\* C9: a create_airtable_record invocation that succeeds returns the body
\* of the 2xx response to its POST, unmodified, and the body of that POST
\* is {"fields": fields} with the caller's field map.
C9_CreateReturnsBody ==
    op = "create_airtable_record" =>
        /\ \A k \in 1..Len(sent) :
             /\ sent[k].method = "POST"
             /\ DOMAIN sent[k].json = {"fields"}
             /\ sent[k].json["fields"] = args.fields
        /\ Succeeded => /\ Is2xx(response.status)
                        /\ result = response.body.value
                        /\ Len(sent) = 1

C9_Witness ==
    /\ op = "create_airtable_record" /\ Succeeded
    /\ args.fields = DictSet(EmptyDict, "Name", Str("Test"))
    /\ result["id"] = Str("rec123")

\* What C10 asks of the step that handles a page.
C10_Step ==
    (Get /\ pc = "recv" /\ GoodResponse)
        => IF CarriesCursor(response.body.value)
           THEN pc' = "send" /\ offset' = response.body.value["offset"]
           ELSE pc' = "done" /\ outcome' = "success"

\* C10: the loop of get_airtable_records ends exactly at a response that
\* carries no cursor (no offset, a null or an empty one) and goes on to a
\* further request after every response that carries one; against a server
\* of finitely many pages an attempt in which no request fails returns.
C10_LoopEndsAtLastPage ==
    /\ [][C10_Step]_vars
    /\ (Get /\ pc = "send") ~> (pc = "wait")
    /\ (Get /\ pc \in {"send", "wait", "recv"}) ~> (pc \in {"done", "failed"})

C10_Witness ==
    /\ Get /\ Succeeded
    /\ Len(server) = MaxPages /\ Len(sent) = MaxPages
    /\ "offset" \in DOMAIN response.body.value
    /\ response.body.value["offset"] = Str("")

====
